---- MODULE Spec2Model ----
(***************************************************************************)
(* The CodePush "get deployment by name" command                           *)
(* (src/commands/codepush/deployment/get-deployment-by-name.ts).           *)
(*                                                                         *)
(* run() is an async function: between two awaits its code runs to         *)
(* completion, so every action below is one such uninterrupted section:    *)
(*   Run              the call of run() up to the await of the list fetch  *)
(*   ListResolves     the list fetch resolved: find, the four branches,    *)
(*                    generateInfo up to the await of the metrics fetch    *)
(*   ListRejects      the list fetch rejected: the catch block             *)
(*   MetricsResolves  the metrics fetch resolved: aggregation, formatting, *)
(*                    out.table, return success()                          *)
(*   MetricsRejects   the metrics fetch rejected: the catch block          *)
(* The HTTP client and the out.* service are collaborators: what they      *)
(* answer, and whether they raise, is chosen nondeterministically.         *)
(***************************************************************************)
EXTENDS Integers, Sequences, FiniteSets, TLC

VARIABLES
    deploymentName,      \* this.deploymentName (-d|--deploymentName)
    displayKey,          \* this.displayKey (-k|--displayKey)
    jsonFormat,          \* what formatIsJson() answers during this run
    pc,                  \* where run() is: start, awaitList, awaitMetrics, returned, rejected
    deployments,         \* run's local `deployments` (httpRequest.result)
    selected,            \* index in deployments of run's local `deployment`, 0 when none
    requests,            \* the client requests issued so far, in order
    metricsReply,        \* the array the metrics fetch answered, as received
    metrics,             \* the same array after the handler ran (pop() mutates it)
    releasesTotalActive, \* the local of generateMetricsJSON / getMetricsString
    textOut,             \* the lines printed by out.text
    tableOut,            \* the data printed by out.table
    caught,              \* the values that reached run's catch block, with their origin
    result               \* the CommandResult run() resolved with

vars == << deploymentName, displayKey, jsonFormat, pc, deployments, selected, requests,
           metricsReply, metrics, releasesTotalActive, textOut, tableOut, caught, result >>

----------------------------------------------------------------------------
(* Bounds and input domains *)

\* Longest metrics array the metrics fetch answers.
MaxMetrics == 2

\* A value is optional (null / undefined / absent) when it is the empty
\* sequence, and present when it is a one-element sequence.
Null == << >>
Some(v) == << v >>
IsNull(o) == o = Null
Get(o) == o[1]

\* The name given on the command line; Undefined stands for an absent option.
Undefined == "<undefined>"
RequestedNames == { Undefined, "", "Prod", "prod" }

Labels == { "v1", "v2", "v3" }
ActiveValues == { 0, 1, 999 }
\* << downloaded, installed, failed >>
CounterValues == { << 10, Some(7), 1 >>, << 10, Some(10), 0 >>,
                   << 10, Null, 0 >>, << 0, Null, 0 >> }

Release(label) ==
    [ label |-> label, targetBinaryRange |-> "1.0.0", isMandatory |-> (label = "v2"),
      uploadTime |-> 1700000000, releasedBy |-> "dev@example.com", metrics |-> Null ]

Deployment(name, latestRelease) ==
    [ name |-> name, key |-> "key-of-" \o name, latestRelease |-> latestRelease ]

\* The deployments of the app on the server: names are unique within an app.
DeploymentPool == { Deployment("Prod", Some(Release("v2"))), Deployment("prod", Null) }

\* The sequences over S of length at most n.
RECURSIVE SeqsUpTo(_, _)
SeqsUpTo(S, n) ==
    IF n = 0 THEN { << >> }
    ELSE LET shorter == SeqsUpTo(S, n - 1)
         IN  shorter \cup { Append(s, x) : s \in { t \in shorter : Len(t) = n - 1 }, x \in S }

UniqueNames(s) == \A i, j \in 1..Len(s) : i # j => s[i].name # s[j].name
UniqueLabels(s) == \A i, j \in 1..Len(s) : i # j => s[i].label # s[j].label

DeploymentLists ==
    { s \in SeqsUpTo(DeploymentPool, Cardinality(DeploymentPool)) : UniqueNames(s) }

\* httpRequest.result of the list fetch: an array of deployments, or (the
\* client being untyped at run time) something that is no array.
ListReply(isArray, items) == [ isArray |-> isArray, items |-> items ]
NotAList == ListReply(FALSE, << >>)
ListReplies == { ListReply(TRUE, s) : s \in DeploymentLists } \cup { NotAList }

ReleaseMetric(label, active, c) ==
    [ label |-> label, active |-> active, downloaded |-> c[1], installed |-> c[2],
      failed |-> c[3] ]

MetricPool ==
    { ReleaseMetric(l, a, c) : l \in Labels, a \in ActiveValues, c \in CounterValues }

\* Metrics are keyed by label: no label occurs twice in one reply.
MetricsReplies == { s \in SeqsUpTo(MetricPool, MaxMetrics) : UniqueLabels(s) }

\* What a collaborator can raise: an Error object carrying an optional HTTP
\* status code, or a value with no properties at all (throw null / undefined).
ErrorObject(statusCode) == [ isNullish |-> FALSE, statusCode |-> statusCode ]
NullishError == [ isNullish |-> TRUE, statusCode |-> "undefined" ]
TransportErrors == { ErrorObject(s) : s \in { "404", "500", "undefined" } }
ErrorValues == TransportErrors \cup { NullishError }
\* The TypeError the runtime raises on a property read of undefined.
TypeError == ErrorObject("undefined")
\* out.text / out.table either work (Null) or raise.
OutputFaults == { Null, Some(ErrorObject("undefined")), Some(NullishError) }

----------------------------------------------------------------------------
(* Collaborators whose effect on strings is fixed: chalk, formatDate *)

\* chalk wraps a string in an SGR open/close pair (the ESC byte is left out).
green(s) == "[32m" \o s \o "[39m"
cyan(s) == "[36m" \o s \o "[39m"
magenta(s) == "[35m" \o s \o "[39m"
bold(s) == "[1m" \o s \o "[22m"

formatDate(t) == "date(" \o ToString(t) \o ")"

scriptName == "appcenter"
Identifier == "owner/app"

----------------------------------------------------------------------------
(* CommandResult *)

NoResult == [ kind |-> "none", errorCode |-> "", errorMessage |-> "" ]
success == [ kind |-> "success", errorCode |-> "", errorMessage |-> "" ]
failure(errorCode, errorMessage) ==
    [ kind |-> "failure", errorCode |-> errorCode, errorMessage |-> errorMessage ]

MissingNameMsg == "Deployment name is missing provide a value for -d|--deploymentName option"
NotFoundMsg == "Deployment not found, please check the value of -d|--deploymentName option"
FailedListMsg == "Failed to get list of deployments for the app"
AppNotFoundErrorMsg ==
    "The app " \o Identifier
    \o " does not exist. Please double check the name, and provide it in the form owner/appname. \nRun the command "
    \o bold(scriptName \o " apps list") \o " to see what apps you have access to."
KeyNoteMsg == "Note: To display deployment keys add -k|--displayKey option"

MissingNameFailure_invalidParameter == failure("InvalidParameter", MissingNameMsg)
MissingNameFailure == failure("Exception", MissingNameMsg)
NotFoundFailure == failure("Exception", NotFoundMsg)

CatchResult_ignoresStatus(error) == failure("Exception", FailedListMsg)

\* The catch block of run: the result it returns for an Error object.
CatchResult(error) ==
    IF error.statusCode = "404"
    THEN failure("InvalidParameter", AppNotFoundErrorMsg)
    ELSE failure("Exception", FailedListMsg)

\* error.statusCode is a property read: it raises a TypeError, inside the
\* catch block, when error is null or undefined.
CatchThrows(error) == error.isNullish

----------------------------------------------------------------------------
(* Number.prototype.toPrecision(2), on the exact quotient num / den > 0 *)

RECURSIVE Pow10(_)
Pow10(k) == IF k = 0 THEN 1 ELSE 10 * Pow10(k - 1)

\* num / den * 10^k as a fraction, k of either sign.
Scaled(num, den, k) ==
    IF k >= 0 THEN [ num |-> num * Pow10(k), den |-> den ]
    ELSE [ num |-> num, den |-> den * Pow10(-k) ]

\* The e with 10^e <= num / den < 10^(e+1).
RECURSIVE Exponent10(_, _, _)
Exponent10(num, den, e) ==
    LET lo == Scaled(num, den, -e)          \* x / 10^e
    IN  IF lo.num < lo.den THEN Exponent10(num, den, e - 1)
        ELSE IF lo.num >= 10 * lo.den THEN Exponent10(num, den, e + 1)
        ELSE e

\* The integer nearest to num / den, the larger one of two equally near.
RoundHalfUp(num, den) == (2 * num + den) \div (2 * den)

RECURSIVE Zeros(_)
Zeros(k) == IF k = 0 THEN "" ELSE "0" \o Zeros(k - 1)

\* toPrecision for precision p = 2 (the quotient is taken exactly; the double
\* the program holds differs from it by less than what moves the rounding
\* for the inputs drawn here): n has two digits,
\* n * 10^(e-1) is the nearest such value to x; exponential notation when
\* e < -6 or e >= p, fixed notation otherwise.
toPrecision2(num, den) ==
    LET e0 == Exponent10(num, den, 0)
        s  == Scaled(num, den, 1 - e0)
        n0 == RoundHalfUp(s.num, s.den)
        e  == IF n0 = 100 THEN e0 + 1 ELSE e0
        n  == IF n0 = 100 THEN 10 ELSE n0
        a  == ToString(n \div 10)
        b  == ToString(n % 10)
    IN  IF e < -6 \/ e >= 2
        THEN a \o "." \o b \o "e" \o (IF e >= 0 THEN "+" ELSE "-")
               \o ToString(IF e >= 0 THEN e ELSE -e)
        ELSE IF e = 1 THEN a \o b
        ELSE IF e = 0 THEN a \o "." \o b
        ELSE "0." \o Zeros(-(e + 1)) \o a \o b

----------------------------------------------------------------------------
(* generateMetricsString, generateMetadataString *)

\* activePercent is (active / total) * 100, or 0 when total is falsy; it is
\* kept as the exact fraction num / den.
ActivePercent(active, releasesTotal) ==
    IF releasesTotal # 0 THEN [ num |-> 100 * active, den |-> releasesTotal ]
    ELSE [ num |-> 0, den |-> 1 ]

PercentString(active, releasesTotal) ==
    LET activePercent == ActivePercent(active, releasesTotal)
    IN  IF activePercent.num = 100 * activePercent.den THEN "100%"
        ELSE IF activePercent.num = 0 THEN "0%"
        ELSE toPrecision2(activePercent.num, activePercent.den) \o "%"

\* ToNumber of a counter in a subtraction: null converts to 0.
ToNumber(o) == IF IsNull(o) THEN 0 ELSE Get(o)

Pending(m) == m.downloaded - ToNumber(m.installed) - m.failed

ActiveLine(m, releasesTotal) ==
    green("Active: ") \o PercentString(m.active, releasesTotal)
    \o " (" \o ToString(m.active) \o " of " \o ToString(releasesTotal) \o ")\n"

InstalledPart(m) ==
    IF ~IsNull(m.installed) THEN green("Installed: ") \o ToString(Get(m.installed)) ELSE ""

PendingPart(m) ==
    IF Pending(m) # 0 THEN " (" \o ToString(Pending(m)) \o " pending)" ELSE ""

\* releaseMetrics is optional: metrics.find answers undefined when no entry matches.
generateMetricsString(releaseMetrics, releasesTotal) ==
    IF ~IsNull(releaseMetrics)
    THEN LET m == Get(releaseMetrics)
         IN  ActiveLine(m, releasesTotal) \o InstalledPart(m) \o PendingPart(m)
    ELSE magenta("No installs recorded")

generateMetadataString(release) ==
    green("Label: ") \o release.label \o "\n"
    \o green("App Version: ") \o release.targetBinaryRange \o "\n"
    \o green("Mandatory: ") \o (IF release.isMandatory THEN "Yes" ELSE "No") \o "\n"
    \o green("Release Time: ") \o formatDate(release.uploadTime) \o "\n"
    \o green("Released By: ") \o release.releasedBy

generateColoredTableTitles(tableTitles) ==
    [ i \in 1..Len(tableTitles) |-> cyan(tableTitles[i]) ]

TableTitles == generateColoredTableTitles(<< "Name", "Update Metadata", "Install Metrics" >>)

----------------------------------------------------------------------------
(* Array helpers, aggregation *)

\* Array.prototype.find, given the indices of the elements that pass the
\* test: the first of them, 0 (undefined) when there is none.
FindIndex(passing) ==
    IF passing = { } THEN 0
    ELSE CHOOSE i \in passing : \A j \in passing : i <= j

Lower(name) == IF name = "Prod" THEN "prod" ELSE name
NameMatches_ignoresCase(name, requested) == Lower(name) = Lower(requested)

\* deployment.name === deploymentName
NameMatches(name, requested) == name = requested

\* !deploymentName || deploymentName === undefined || deploymentName === ""
NameIsMissing(requested) == requested = Undefined \/ requested = ""

\* let total = 0; metrics.forEach((metric) => (total += metric.active))
RECURSIVE SumActiveFrom(_, _, _)
SumActiveFrom(ms, i, total) ==
    IF i > Len(ms) THEN total ELSE SumActiveFrom(ms, i + 1, total + ms[i].active)

SumActive_latestOnly(ms) == IF Len(ms) = 0 THEN 0 ELSE ms[Len(ms)].active

SumActive(ms) == SumActiveFrom(ms, 1, 0)

\* metrics.find((metric) => metric.label === deployment.latestRelease.label)
FindReleaseMetrics(ms, label) ==
    LET i == FindIndex({ k \in 1..Len(ms) : ms[k].label = label })
    IN  IF i = 0 THEN Null ELSE Some(ms[i])

\* metrics.pop(): the entry generateMetricsJSON takes as the latest one.
LatestMetricIndex(ms) == Len(ms)

\* latestMetric.totalActive = total; delete latestMetric.label
Aggregated(m, total) ==
    [ active |-> m.active, downloaded |-> m.downloaded, installed |-> m.installed,
      failed |-> m.failed, totalActive |-> total ]

\* generateMetricsJSON after the fetch: what it returns (null for an empty
\* array), the array it leaves behind and the total it computed.
generateMetricsJSON(ms) ==
    IF Len(ms) # 0
    THEN LET total == SumActive(ms)
             k == LatestMetricIndex(ms)
         IN  [ returned |-> Some(Aggregated(ms[k], total)),
               metrics |-> SubSeq(ms, 1, Len(ms) - 1),
               total |-> Some(total) ]
    ELSE [ returned |-> Null, metrics |-> ms, total |-> Null ]

----------------------------------------------------------------------------
(* The state machine of run() *)

Init ==
    /\ deploymentName \in RequestedNames
    /\ displayKey \in BOOLEAN
    /\ jsonFormat \in BOOLEAN
    /\ pc = "start"
    /\ deployments = ListReply(TRUE, << >>)
    /\ selected = 0
    /\ requests = << >>
    /\ metricsReply = << >>
    /\ metrics = << >>
    /\ releasesTotalActive = Null
    /\ textOut = << >>
    /\ tableOut = << >>
    /\ caught = << >>
    /\ result = NoResult

Args == << deploymentName, displayKey, jsonFormat >>

\* return <a CommandResult>
Return(r) == pc' = "returned" /\ result' = r

\* catch (error) { ... }: a failure for an Error object; for null or undefined
\* the read of error.statusCode raises and run's promise rejects.
Catch(error, origin) ==
    /\ caught' = Append(caught, [ error |-> error, origin |-> origin ])
    /\ IF CatchThrows(error)
       THEN pc' = "rejected" /\ result' = NoResult
       ELSE Return(CatchResult(error))

\* out.table(options, data); return success()  -- or the catch block when
\* out.table raises.
TableThenSuccess(data, tableFault) ==
    IF IsNull(tableFault)
    THEN /\ tableOut' = Append(tableOut, [ titles |-> TableTitles, data |-> data ])
         /\ Return(success)
         /\ UNCHANGED caught
    ELSE /\ Catch(Get(tableFault), "out.table")
         /\ UNCHANGED tableOut

\* generateInfo maps the one-element array [deployment] through promiseMap,
\* so its transform runs exactly once and the concurrency limit
\* (PROMISE_CONCURRENCY, 30) is never reached. The transform awaits a metrics
\* fetch in machine-readable mode always, in human mode only for a deployment
\* with a latest release.
FetchesMetrics(deployment) == jsonFormat \/ ~IsNull(deployment.latestRelease)

TakesKeyBranch_never == FALSE

\* else if (this.displayKey): the branch that prints the key and nothing else.
TakesKeyBranch == displayKey

\* run() is called: the list request is issued and awaited.
Run ==
    /\ pc = "start"
    /\ pc' = "awaitList"
    /\ requests' = Append(requests, "list")
    /\ UNCHANGED << Args, deployments, selected, metricsReply, metrics, releasesTotalActive,
                    textOut, tableOut, caught, result >>

\* The list fetch rejects with error.
ListRejects(error) ==
    /\ pc = "awaitList"
    /\ Catch(error, "list")
    /\ UNCHANGED << Args, deployments, selected, requests, metricsReply, metrics,
                    releasesTotalActive, textOut, tableOut >>

\* The list fetch resolves with reply; textFault and tableFault are what
\* out.text and out.table do if this section calls them.
ListResolves(reply, textFault, tableFault) ==
    LET found == FindIndex({ i \in 1..Len(reply.items) :
                                NameMatches(reply.items[i].name, deploymentName) })
        deployment == reply.items[found]
    IN
    /\ pc = "awaitList"
    /\ deployments' = reply
    /\ UNCHANGED << Args, metricsReply, metrics, releasesTotalActive >>
    /\ IF ~reply.isArray
       THEN \* deployments.find raises a TypeError
            /\ Catch(TypeError, "find")
            /\ UNCHANGED << selected, requests, textOut, tableOut >>
       ELSE
       /\ selected' = found
       /\ IF NameIsMissing(deploymentName)
          THEN /\ Return(MissingNameFailure)
               /\ UNCHANGED << requests, textOut, tableOut, caught >>
          ELSE IF found = 0
          THEN /\ Return(NotFoundFailure)
               /\ UNCHANGED << requests, textOut, tableOut, caught >>
          ELSE IF ~IsNull(textFault)
          THEN \* out.text raises, in either of the two branches that call it
               /\ Catch(Get(textFault), "out.text")
               /\ UNCHANGED << requests, textOut, tableOut >>
          ELSE IF TakesKeyBranch
          THEN /\ textOut' = Append(textOut, deployment.key)
               /\ Return(success)
               /\ UNCHANGED << requests, tableOut, caught >>
          ELSE
          /\ textOut' = Append(textOut, KeyNoteMsg)
          /\ IF FetchesMetrics(deployment)
             THEN /\ requests' = Append(requests, "metrics")
                  /\ pc' = "awaitMetrics"
                  /\ UNCHANGED << tableOut, caught, result >>
             ELSE /\ TableThenSuccess(
                        << << deployment.name, magenta("No updates released"),
                              magenta("No installs recorded") >> >>, tableFault)
                  /\ UNCHANGED requests

\* The metrics fetch rejects with error.
MetricsRejects(error) ==
    /\ pc = "awaitMetrics"
    /\ Catch(error, "metrics")
    /\ UNCHANGED << Args, deployments, selected, requests, metricsReply, metrics,
                    releasesTotalActive, textOut, tableOut >>

\* The metrics fetch resolves with reply.
MetricsResolves(reply, tableFault) ==
    LET deployment == deployments.items[selected]
    IN
    /\ pc = "awaitMetrics"
    /\ metricsReply' = reply
    /\ UNCHANGED << Args, selected, requests, textOut >>
    /\ IF jsonFormat
       THEN LET json == generateMetricsJSON(reply)
                attach == ~IsNull(json.returned) /\ ~IsNull(deployment.latestRelease)
                updated ==
                    IF attach
                    THEN [ deployment EXCEPT
                             !.latestRelease =
                                 Some([ Get(deployment.latestRelease) EXCEPT
                                          !.metrics = json.returned ]) ]
                    ELSE deployment
            IN  /\ metrics' = json.metrics
                /\ releasesTotalActive' = json.total
                /\ deployments' = [ deployments EXCEPT !.items[selected] = updated ]
                /\ TableThenSuccess(<< updated >>, tableFault)
       ELSE LET release == Get(deployment.latestRelease)
                total == SumActive(reply)
                releaseMetrics == FindReleaseMetrics(reply, release.label)
            IN  /\ metrics' = reply
                /\ releasesTotalActive' = Some(total)
                /\ UNCHANGED deployments
                /\ TableThenSuccess(
                       << << deployment.name, generateMetadataString(release),
                             generateMetricsString(releaseMetrics, total) >> >>, tableFault)

\* The guards on pc are repeated here, ahead of the quantifiers, so that the
\* replies are enumerated only in the states that await them.
Next ==
    \/ Run
    \/ /\ pc = "awaitList"
       /\ \E reply \in ListReplies, textFault, tableFault \in OutputFaults :
              ListResolves(reply, textFault, tableFault)
    \/ /\ pc = "awaitList"
       /\ \E error \in ErrorValues : ListRejects(error)
    \/ /\ pc = "awaitMetrics"
       /\ \E reply \in MetricsReplies, tableFault \in OutputFaults :
              MetricsResolves(reply, tableFault)
    \/ /\ pc = "awaitMetrics"
       /\ \E error \in ErrorValues : MetricsRejects(error)

Spec == Init /\ [][Next]_vars

----------------------------------------------------------------------------
(* Vocabulary of the properties *)

Completed == pc \in { "returned", "rejected" }

RaisedBy(origin) == \E i \in 1..Len(caught) : caught[i].origin = origin

\* The list fetch resolved (with whatever value) and its section has run.
ListResolved == pc \notin { "start", "awaitList" } /\ ~RaisedBy("list")

\* ... and what it resolved with is an array.
ListFetched == ListResolved /\ deployments.isArray

\* The metrics fetch resolved and its section has run.
MetricsResolved == Completed /\ Len(requests) = 2 /\ ~RaisedBy("metrics")

\* Some fetched deployment has exactly the requested name.
MatchExists == \E i \in 1..Len(deployments.items) : deployments.items[i].name = deploymentName

NameGiven == deploymentName # Undefined /\ deploymentName # ""

SelectedDeployment == deployments.items[selected]

\* The row out.table printed in human mode.
PrintedRow == tableOut[1].data[1]

\* The entries of the metrics reply that carry the latest release's label.
LatestEntries ==
    { i \in 1..Len(metricsReply) :
        metricsReply[i].label = Get(SelectedDeployment.latestRelease).label }

----------------------------------------------------------------------------
(* C1 *)

\* C1: whatever the collaborators answer or raise, run completes with a
\* CommandResult (success, or failure with code and message); run's promise
\* never rejects with a raw exception.
C1_RunAlwaysReturnsAResult ==
    /\ pc # "rejected"
    /\ (pc = "returned" => result.kind \in { "success", "failure" })

----------------------------------------------------------------------------
(* C2 *)

\* C2: a transport error (an Error object with an optional status code)
\* raised by the list fetch or by the metrics fetch makes run return a
\* failure: InvalidParameter with the "app does not exist" message for status
\* 404, Exception with "Failed to get list of deployments for the app" for
\* anything else; the two differ in code and in message, and neither is the
\* "Deployment not found" failure.
C2_TransportErrorsBecomeFailures ==
    \A i \in 1..Len(caught) :
        LET c == caught[i]
        IN  (c.origin \in { "list", "metrics" } /\ c.error \in TransportErrors) =>
              /\ pc = "returned"
              /\ result.kind = "failure"
              /\ result # NotFoundFailure
              /\ IF c.error.statusCode = "404"
                 THEN /\ result = failure("InvalidParameter", AppNotFoundErrorMsg)
                      /\ result.errorCode # "Exception"
                      /\ result.errorMessage # FailedListMsg
                 ELSE /\ result = failure("Exception", FailedListMsg)
                      /\ result.errorCode # "InvalidParameter"
                      /\ result.errorMessage # AppNotFoundErrorMsg

\* The metrics fetch was rejected with a 404 and run returned.
C2_Witness ==
    /\ pc = "returned"
    /\ caught = << [ error |-> ErrorObject("404"), origin |-> "metrics" ] >>

----------------------------------------------------------------------------
(* C3 *)

\* C3 (as claimed): with an empty or missing deployment name run fails with
\* error code InvalidParameter.
C3_MissingNameIsInvalidParameter ==
    (Completed /\ ~NameGiven /\ ListFetched) =>
        result.kind = "failure" /\ result.errorCode = "InvalidParameter"

\* C3 (amended): with an empty or missing deployment name run never
\* succeeds, prints nothing and fetches no metrics; once the list fetch has
\* resolved with a list it returns the failure with the generic code
\* Exception and the "Deployment name is missing" message.
C3_MissingNameIsException ==
    ~NameGiven =>
        /\ result.kind # "success"
        /\ textOut = << >> /\ tableOut = << >>
        /\ \A i \in 1..Len(requests) : requests[i] # "metrics"
        /\ ListFetched =>
              /\ pc = "returned"
              /\ result = failure("Exception", MissingNameMsg)

\* The name is empty, the list was fetched and holds deployments, run returned.
C3_Witness ==
    /\ deploymentName = ""
    /\ ListFetched
    /\ Len(deployments.items) = 2
    /\ pc = "returned"
    /\ result.errorMessage = MissingNameMsg

----------------------------------------------------------------------------
(* C4 *)

\* C4: when the list fetch succeeded and no fetched deployment has exactly
\* the (non-empty) requested name, run returns the "Deployment not found"
\* failure, prints neither a line nor a table and fetches no metrics; and run
\* returns success only if the name is non-empty and some fetched deployment
\* has exactly that name.
C4_NotFoundAndSuccessOnlyOnMatch ==
    /\ (ListFetched /\ NameGiven /\ ~MatchExists) =>
          /\ pc = "returned"
          /\ result = NotFoundFailure
          /\ textOut = << >> /\ tableOut = << >>
          /\ requests = << "list" >>
    /\ result.kind = "success" => (ListFetched /\ NameGiven /\ MatchExists)

\* "prod" was requested and the only fetched deployment is "Prod".
C4_Witness ==
    /\ deploymentName = "prod"
    /\ ListFetched
    /\ Len(deployments.items) = 1 /\ deployments.items[1].name = "Prod"
    /\ result = NotFoundFailure

----------------------------------------------------------------------------
(* C5 *)

\* C5: with the display-key flag set and a deployment of the requested name
\* fetched, in human and in machine-readable mode alike, no metrics are
\* fetched, no table is printed and the fetched deployments stay as they
\* were received; the one line printed is the deployment's key and run
\* returns success (out.text raising is the only way to anything else, and
\* then nothing is printed and run does not succeed).
C5_DisplayKeyBypassesMetrics ==
    (displayKey /\ ListFetched /\ NameGiven /\ MatchExists) =>
        /\ Completed
        /\ requests = << "list" >>
        /\ metricsReply = << >>
        /\ tableOut = << >>
        /\ deployments \in ListReplies
        /\ SelectedDeployment.name = deploymentName
        /\ IF RaisedBy("out.text")
           THEN textOut = << >> /\ result.kind # "success"
           ELSE /\ textOut = << SelectedDeployment.key >>
                /\ pc = "returned"
                /\ result = success

\* Machine-readable mode, display-key flag set: the key of Prod was printed.
C5_Witness ==
    /\ displayKey /\ jsonFormat
    /\ Len(deployments.items) = 2
    /\ textOut = << "key-of-Prod" >>
    /\ result = success

----------------------------------------------------------------------------
(* C6 *)

\* C6: in human and in machine-readable mode, a metrics fetch is issued only
\* after the list fetch succeeded and a deployment was selected by name, and
\* only if that deployment has a latest release.
C6_MetricsFetchOnlyWithLatestRelease ==
    \A i \in 1..Len(requests) :
        requests[i] = "metrics" =>
            /\ i > 1 /\ requests[1] = "list"
            /\ ListFetched
            /\ selected # 0
            /\ SelectedDeployment.name = deploymentName
            /\ ~IsNull(SelectedDeployment.latestRelease)

----------------------------------------------------------------------------
(* C7 *)

\* C7: in machine-readable mode, for a deployment with a latest release and
\* a non-empty metrics reply in any order, the object attached as
\* latestRelease.metrics carries the counters of the entry whose label is the
\* latest release's label, with totalActive added and label removed.
C7_AttachedMetricsAreTheLatestReleases ==
    (jsonFormat /\ MetricsResolved /\ ~IsNull(SelectedDeployment.latestRelease)) =>
        \A i \in LatestEntries :
            LET m == metricsReply[i]
                attached == Get(SelectedDeployment.latestRelease).metrics
            IN  /\ ~IsNull(attached)
                /\ DOMAIN Get(attached) =
                     { "active", "downloaded", "installed", "failed", "totalActive" }
                /\ Get(attached).active = m.active
                /\ Get(attached).downloaded = m.downloaded
                /\ Get(attached).installed = m.installed
                /\ Get(attached).failed = m.failed

----------------------------------------------------------------------------
(* C8 *)

\* Human mode: the metrics fetch resolved and the table was printed.
HumanRowPrinted == ~jsonFormat /\ MetricsResolved /\ tableOut # << >>

\* C8: in human mode, for a release metric whose installed value is null the
\* metrics string is the Active line alone (no "Installed:" text, no
\* "(N pending)" text); for a non-null installed value the Installed text
\* follows, with the "(N pending)" suffix exactly when downloaded - installed
\* - failed is not zero.
C8_InstalledLineOmittedForNull ==
    HumanRowPrinted =>
        \A i \in LatestEntries :
            LET m == metricsReply[i]
                activeLine == ActiveLine(m, Get(releasesTotalActive))
            IN  IF IsNull(m.installed)
                THEN PrintedRow[3] = activeLine
                ELSE LET n == m.downloaded - Get(m.installed) - m.failed
                     IN  PrintedRow[3] =
                            activeLine \o green("Installed: ") \o ToString(Get(m.installed))
                            \o (IF n # 0 THEN " (" \o ToString(n) \o " pending)" ELSE "")

----------------------------------------------------------------------------
(* C9 *)

\* num / den > 0 rounded to 2 significant digits, written in plain decimal
\* notation: "37", "4.2", "0.91", and "100" for what rounds up to 100.
C9_PlainDecimal(num, den) ==
    LET e0 == Exponent10(num, den, 0)
        s  == Scaled(num, den, 1 - e0)
        n0 == RoundHalfUp(s.num, s.den)
        e  == IF n0 = 100 THEN e0 + 1 ELSE e0
        n  == IF n0 = 100 THEN 10 ELSE n0
    IN  IF e >= 1 THEN ToString(n * Pow10(e - 1))
        ELSE IF e = 0 THEN ToString(n \div 10) \o "." \o ToString(n % 10)
        ELSE "0." \o Zeros(-(e + 1)) \o ToString(n)

C9_Percent(active, total) ==
    IF total = 0 \/ active = 0 THEN "0%"
    ELSE IF active = total THEN "100%"
    ELSE C9_PlainDecimal(100 * active, total) \o "%"

\* C9: for 0 <= active <= totalActive the percent of the Active line is "0%"
\* when totalActive = 0 or active = 0, "100%" when active = totalActive > 0,
\* and otherwise the percentage rounded to 2 significant digits in plain
\* decimal notation, never in another notation.
C9_PercentIsPlainDecimal ==
    HumanRowPrinted =>
        \A i \in LatestEntries :
            LET m == metricsReply[i]
                total == Get(releasesTotalActive)
            IN  PrintedRow[3] =
                    green("Active: ") \o C9_Percent(m.active, total)
                    \o " (" \o ToString(m.active) \o " of " \o ToString(total) \o ")\n"
                    \o InstalledPart(m) \o PendingPart(m)

----------------------------------------------------------------------------
(* C10 *)

\* The sum of active over the entries at the indices I of ms.
RECURSIVE C10_SumOver(_, _)
C10_SumOver(ms, I) ==
    IF I = { } THEN 0
    ELSE LET i == CHOOSE j \in I : TRUE
         IN  ms[i].active + C10_SumOver(ms, I \ { i })

C10_Total == C10_SumOver(metricsReply, 1..Len(metricsReply))

\* C10: in human and in machine-readable mode the total of a deployment is
\* the sum of active over all the entries the metrics fetch answered, every
\* label included, in whatever order: it is the "of N" total of the Active
\* line, and the totalActive field of the attached metrics object.
C10_TotalIsSumOverAllEntries ==
    MetricsResolved =>
        IF jsonFormat
        THEN /\ metricsReply # << >> => releasesTotalActive = Some(C10_Total)
             /\ (metricsReply # << >> /\ ~IsNull(SelectedDeployment.latestRelease)) =>
                   Get(Get(SelectedDeployment.latestRelease).metrics).totalActive = C10_Total
        ELSE /\ releasesTotalActive = Some(C10_Total)
             /\ tableOut # << >> =>
                   \A i \in LatestEntries :
                       LET m == metricsReply[i]
                       IN  PrintedRow[3] =
                              green("Active: ") \o PercentString(m.active, C10_Total)
                              \o " (" \o ToString(m.active) \o " of "
                              \o ToString(C10_Total) \o ")\n"
                              \o InstalledPart(m) \o PendingPart(m)

\* Human mode: two entries, the latest release's first and another release's
\* after it, both with active installs, and the row was printed.
C10_Witness ==
    /\ HumanRowPrinted
    /\ Len(metricsReply) = 2
    /\ metricsReply[1].label = "v2" /\ metricsReply[1].active = 1
    /\ metricsReply[2].label = "v1" /\ metricsReply[2].active = 999
    /\ releasesTotalActive = Some(1000)

====
